---- MODULE Spec2Model ----
(***************************************************************************)
(* ARCropolis file replacement plugin.                                     *)
(*                                                                         *)
(*   src/src/replacement_files.rs   ArcFiles: the hash -> path index       *)
(*   src/src/lib.rs                 the two hooks idk and                  *)
(*                                  add_idx_to_table1_and_table2, and main *)
(*                                                                         *)
(*   src/crates/menus/src/arcadia/mod.rs   show_arcadia: the mod manager   *)
(*                                  session that edits a preset            *)
(*                                                                         *)
(* Strings are sequences of one-character strings, so that slicing         *)
(* ([arc_dir_len + 1..]), replace(";", ":") and hash40 are computed on the *)
(* characters.  A 40-bit hash is the triple <<length byte, high 16 bits of *)
(* the CRC32, low 16 bits of the CRC32>>.                                  *)
(***************************************************************************)
EXTENDS Integers, Sequences, FiniteSets, TLC

VARIABLES
    fs,          \* storage: directory path -> [entries, err] (read_dir's yield)
    presets,     \* config: the stored preset, the hashes of the enabled mods
    pcMain,      \* position of main(): "start", "initialized", "installed"
    arc_files,   \* ARC_FILES: [map, visited]; map is ArcFiles.0
    lastLookup,  \* result of the latest get_from_hash made by a test client
    table,       \* host table2 entries: table1_idx -> [data, state, flags]
    mutex,       \* loaded_tables.mutex: <<>> when free, <<t>> when t holds it
    leaked,      \* buffers given to Box::leak, in allocation order
    pc,          \* per thread: position inside the running hook
    hook,        \* per thread: "idk" or "add_idx" (the hook being run)
    idx,         \* per thread: the table1_idx argument
    path,        \* per thread: the local `path` (result of get_from_hash)
    data,        \* per thread: the local `data` (pointer to the leaked buffer)
    ncalls,      \* number of hook invocations made so far by the host
    origCalls,   \* per thread: calls of original!() in the current invocation
    locked,      \* per thread: LockMutex calls in the current invocation
    wrote,       \* per thread: entry fields written in the current invocation
    seen,        \* per thread: the entry as it was when the hook checked it
    pcMenu,          \* position of show_arcadia
    active,          \* config: the active workspace name, <<>> when unreadable
    workspace_name,  \* show_arcadia: the workspace being edited
    loaded,          \* show_arcadia: the local `presets` (as read at line 109)
    new_presets,     \* show_arcadia: the local `new_presets`
    entries,         \* show_arcadia: mods.entries, the folder names by id
    received,        \* the results of session.recv_json so far, in order
    writes,          \* number of replace_preset calls made
    prompt,          \* the relaunch dialog: "none", or the answer "yes", "no"
    relaunch         \* whether RequestToRelaunchApplication was called

vars == <<fs, presets, pcMain, arc_files, lastLookup, table, mutex, leaked,
          pc, hook, idx, path, data, ncalls, origCalls, locked, wrote, seen,
          pcMenu, active, workspace_name, loaded, new_presets, entries,
          received, writes, prompt, relaunch>>

buildVars == <<fs, presets, pcMain, arc_files>>
hookVars == <<table, mutex, leaked, pc, hook, idx, path, data, ncalls,
              origCalls, locked, wrote, seen>>
menuVars == <<pcMenu, active, workspace_name, loaded, new_presets, entries,
              received, writes, prompt, relaunch>>

----------------------------------------------------------------------------
(* Bounds of the model *)

\* longest directory listing storage yields
MaxEntries == 2
\* number of host worker threads
NumThreads == 2
\* number of messages a session delivers before it closes or breaks
MaxMsgs == 2
\* number of hook invocations the host makes in a run
MaxCalls == 2

----------------------------------------------------------------------------
(* Strings *)

ARC_DIR == <<"r", "o", "m", ":", "/", "a", "r", "c">>
UMM_DIR == <<"s", "d", ":", "/", "u", "l", "t", "i", "m", "a", "t", "e",
             "/", "m", "o", "d", "s">>

\* ASCII code of a character
Ord(c) ==
    CASE c = "/" -> 47
      [] c = ":" -> 58
      [] c = ";" -> 59
      [] c = "a" -> 97
      [] c = "b" -> 98
      [] c = "c" -> 99
      [] c = "d" -> 100
      [] c = "e" -> 101
      [] c = "i" -> 105
      [] c = "l" -> 108
      [] c = "m" -> 109
      [] c = "n" -> 110
      [] c = "o" -> 111
      [] c = "r" -> 114
      [] c = "s" -> 115
      [] c = "t" -> 116
      [] c = "u" -> 117

\* format!("{}/{}", dir.display(), filename.display())
JoinPath(dir, filename) == dir \o <<"/">> \o filename

\* str::replace(";", ":")
ReplaceSemicolon(s) == [i \in 1..Len(s) |-> IF s[i] = ";" THEN ":" ELSE s[i]]

\* s[from..] with a 0-based byte offset
SliceFrom(s, from) == SubSeq(s, from + 1, Len(s))

----------------------------------------------------------------------------
(* smash::hash40: (len as u8) << 32 | crc32(bytes), on 16-bit limbs *)

RECURSIVE XorBits(_, _, _)
XorBits(a, b, n) ==
    IF n = 0 THEN 0
    ELSE (((a % 2) + (b % 2)) % 2) + 2 * XorBits(a \div 2, b \div 2, n - 1)

Xor16(a, b) == XorBits(a, b, 16)

\* one of the eight shift steps of the reflected CRC32 (polynomial EDB88320)
CrcShift(crc) ==
    LET hi == crc[1] \div 2
        lo == (crc[2] \div 2) + ((crc[1] % 2) * 32768)
    IN  IF crc[2] % 2 = 1
        THEN <<Xor16(hi, 60856), Xor16(lo, 33568)>>
        ELSE <<hi, lo>>

RECURSIVE CrcShifts(_, _)
CrcShifts(crc, n) == IF n = 0 THEN crc ELSE CrcShifts(CrcShift(crc), n - 1)

\* the CRC32 table
CrcTable == [b \in 0..255 |-> CrcShifts(<<0, b>>, 8)]

\* crc = table[(crc ^ b) & 0xFF] ^ (crc >> 8)
CrcByte(crc, b) ==
    LET e == CrcTable[XorBits(crc[2] % 256, b, 8)]
    IN  <<Xor16(crc[1] \div 256, e[1]),
          Xor16((crc[2] \div 256) + ((crc[1] % 256) * 256), e[2])>>

\* The loop over the bytes; its state is <<high limb, low limb, next index>>.
CrcStep(st, s) ==
    LET c == CrcByte(<<st[1], st[2]>>, Ord(s[st[3]]))
    IN  <<c[1], c[2], st[3] + 1>>

RECURSIVE CrcBytes(_, _)
CrcBytes(st, s) ==
    IF st[3] > Len(s) THEN st ELSE CrcBytes(CrcStep(st, s), s)

crc32(s) ==
    LET r == CrcBytes(<<65535, 65535, 1>>, s)
    IN  <<65535 - r[1], 65535 - r[2]>>

hash40(s) == <<(Len(s) % 256)>> \o crc32(s)

----------------------------------------------------------------------------
(* Storage *)

\* Path::is_dir
IsDir(f, p) == p \in DOMAIN f

EmptyMap == [h \in {} |-> <<>>]

\* (mutant) an insert that keeps the entry already present
HashMapInsert_KeepFirst(m, k, v) ==
    [x \in (DOMAIN m) \cup {k} |-> IF x \in DOMAIN m THEN m[x] ELSE v]

\* HashMap::insert: a present key is overwritten
HashMapInsert(m, k, v) ==
    [x \in (DOMAIN m) \cup {k} |-> IF x = k THEN v ELSE m[x]]

----------------------------------------------------------------------------
(* ArcFiles *)

\* (mutant) visit_file hashing the relative path as it is on storage
visit_file_NoReplace(self, p, arc_dir_len) ==
    LET game_path == SliceFrom(p, arc_dir_len + 1)
        hash == hash40(game_path)
    IN  [map |-> HashMapInsert(self.map, hash, p),
         visited |-> Append(self.visited, p)]

\* ArcFiles::visit_file.  `visited` records the calls, in order.
visit_file(self, p, arc_dir_len) ==
    LET game_path == ReplaceSemicolon(SliceFrom(p, arc_dir_len + 1))
        hash == hash40(game_path)
    IN  [map |-> HashMapInsert(self.map, hash, p),
         visited |-> Append(self.visited, p)]

\* ArcFiles::visit_dir: the result is [self, ok]; ok = FALSE is Err(_).
\* DirEntry::path() is the entry's file name on this target (the code joins
\* it to `dir` itself and calls it `filename`).
RECURSIVE visit_dir(_, _, _, _)
RECURSIVE VisitDirLoop(_, _, _, _, _)
VisitDirLoop(self, f, dir, arc_dir_len, i) ==
    IF i > Len(f[dir].entries)
    THEN [self |-> self, ok |-> ~f[dir].err]
    ELSE LET filename == f[dir].entries[i]
             real_path == JoinPath(dir, filename)
         IN  IF IsDir(f, real_path)
             THEN LET r == visit_dir(self, f, real_path, arc_dir_len)
                  IN  IF r.ok
                      THEN VisitDirLoop(r.self, f, dir, arc_dir_len, i + 1)
                      ELSE r
             ELSE VisitDirLoop(visit_file(self, real_path, arc_dir_len),
                               f, dir, arc_dir_len, i + 1)

visit_dir(self, f, dir, arc_dir_len) ==
    IF IsDir(f, dir)
    THEN VisitDirLoop(self, f, dir, arc_dir_len, 1)
    ELSE [self |-> self, ok |-> TRUE]

\* ArcFiles::visit_umm_dirs
RECURSIVE VisitUmmLoop(_, _, _, _)
VisitUmmLoop(self, f, dir, i) ==
    IF i > Len(f[dir].entries)
    THEN [self |-> self, ok |-> ~f[dir].err]
    ELSE LET filename == f[dir].entries[i]
             real_path == JoinPath(dir, filename)
         IN  IF IsDir(f, real_path)
             THEN LET r == visit_dir(self, f, real_path, Len(real_path))
                  IN  IF r.ok
                      THEN VisitUmmLoop(r.self, f, dir, i + 1)
                      ELSE r
             ELSE VisitUmmLoop(self, f, dir, i + 1)

visit_umm_dirs(self, f, dir) ==
    IF IsDir(f, dir)
    THEN VisitUmmLoop(self, f, dir, 1)
    ELSE [self |-> self, ok |-> TRUE]

\* (mutant) new visiting the mod directories before rom:/arc
ArcFilesNew_UmmFirst(f) ==
    LET instance == [map |-> EmptyMap, visited |-> <<>>]
        afterUmm == visit_umm_dirs(instance, f, UMM_DIR).self
    IN  visit_dir(afterUmm, f, ARC_DIR, Len(ARC_DIR)).self

\* ArcFiles::new: both results are dropped (let _ = ...)
ArcFilesNew(f) ==
    LET instance == [map |-> EmptyMap, visited |-> <<>>]
        afterArc == visit_dir(instance, f, ARC_DIR, Len(ARC_DIR)).self
    IN  visit_umm_dirs(afterArc, f, UMM_DIR).self

\* Option<&PathBuf>: <<>> is None, <<p>> is Some(p)
get_from_hash(self, hash) ==
    IF hash \in DOMAIN self.map THEN <<self.map[hash]>> ELSE <<>>

----------------------------------------------------------------------------
(* The storages the index is built from *)

Range(s) == {s[i] : i \in 1..Len(s)}

\* the listings of at most n distinct names of S, in every order
Listings(S, n) ==
    UNION {{s \in [1..k -> S] : \A i, j \in 1..k : i # j => s[i] # s[j]} :
           k \in 0..n}

FileNames == {<<"a">>, <<"b", ";", "c">>, <<"b", ":", "c">>}
ModFileNames == {<<"a">>, <<"b", ";", "c">>}
SubDirName == <<"d">>
ModNames == {<<"m">>, <<"n">>}

SubDir == JoinPath(ARC_DIR, SubDirName)
ModDir(name) == JoinPath(UMM_DIR, name)
ModDirs == {ModDir(name) : name \in ModNames}

\* A storage: each directory with what read_dir yields for it: `entries`, in
\* enumeration order, then an io::Error if `err` (err with no entries is a
\* read_dir that fails at once).  A name is a directory iff its path is in
\* the domain.  `umm` says whether sd:/ultimate/mods exists.
MkStorage(root, sub, umm, mods, modFiles, errs) ==
    LET dirs == {ARC_DIR}
                \cup (IF SubDirName \in Range(root) THEN {SubDir} ELSE {})
                \cup (IF umm
                      THEN {UMM_DIR} \cup
                           {ModDir(name) : name \in Range(mods) \cap ModNames}
                      ELSE {})
        listing(p) == IF p = ARC_DIR THEN root
                      ELSE IF p = SubDir THEN sub
                      ELSE IF p = UMM_DIR THEN mods
                      ELSE modFiles[SliceFrom(p, Len(UMM_DIR) + 1)]
    IN  [p \in dirs |-> [entries |-> listing(p), err |-> p \in errs]]

\* the logical asset paths a client may ask for, each with its hash
GamePaths == {<<"a">>, <<"b", ":", "c">>, <<"d", "/", "a">>}
GameHashes == [g \in GamePaths |-> hash40(g)]

\* the identifier of a mod directory in a preset (arcadia: Hash40::from(path))
ModHashes == [d \in ModDirs |-> hash40(d)]

\* show_arcadia is not running
MenuClosed ==
    /\ pcMenu = "closed"
    /\ active = <<>>
    /\ workspace_name = <<>>
    /\ loaded = {}
    /\ new_presets = {}
    /\ entries = <<>>
    /\ received = <<>>
    /\ writes = 0
    /\ prompt = "none"
    /\ relaunch = FALSE

\* no hook runs while the index is built and queried
InitHooks ==
    /\ table = <<>>
    /\ mutex = <<>>
    /\ leaked = <<>>
    /\ pc = <<>>
    /\ hook = <<>>
    /\ idx = <<>>
    /\ path = <<>>
    /\ data = <<>>
    /\ ncalls = 0
    /\ origCalls = <<>>
    /\ locked = <<>>
    /\ wrote = <<>>
    /\ seen = <<>>

\* Before main(): ARC_FILES is not initialized, any storage is mounted.
InitBuild ==
    /\ \E root \in Listings(FileNames \cup {SubDirName}, MaxEntries),
          sub \in Listings({<<"a">>}, 1),
          umm \in BOOLEAN,
          mods \in Listings(ModNames \cup {<<"a">>}, Cardinality(ModNames)),
          modFiles \in [ModNames -> Listings(ModFileNames, 1)],
          errAt \in {ARC_DIR, SubDir, UMM_DIR} \cup ModDirs \cup {<<>>} :
        /\ SubDirName \notin Range(root) => sub = <<>>
        /\ ~umm => mods = <<>>
        /\ \A name \in ModNames : name \notin Range(mods) => modFiles[name] = <<>>
        /\ LET f == MkStorage(root, sub, umm, mods, modFiles, {errAt})
           IN  /\ errAt # <<>> => errAt \in DOMAIN f
               /\ fs = f
    /\ presets \in SUBSET {ModHashes[d] : d \in ModDirs \cap DOMAIN fs}
    /\ pcMain = "start"
    /\ arc_files = [map |-> EmptyMap, visited |-> <<>>]
    /\ lastLookup = <<>>
    /\ InitHooks
    /\ MenuClosed

\* main, line 126: lazy_static::initialize(&ARC_FILES) runs ArcFiles::new
Initialize ==
    /\ pcMain = "start"
    /\ pcMain' = "initialized"
    /\ arc_files' = ArcFilesNew(fs)
    /\ UNCHANGED <<fs, presets, lastLookup>>
    /\ UNCHANGED <<hookVars, menuVars>>

\* a client of the built index: ARC_FILES.get_from_hash(hash40(g))
Lookup ==
    /\ pcMain # "start"
    /\ \E g \in GamePaths :
          lastLookup' = <<g, get_from_hash(arc_files, GameHashes[g])>>
    /\ UNCHANGED <<fs, presets, pcMain, arc_files>>
    /\ UNCHANGED <<hookVars, menuVars>>

NextBuild == Initialize \/ Lookup

SpecBuild == InitBuild /\ [][NextBuild]_vars

----------------------------------------------------------------------------
(* The host's resource table and the two hooks *)

Threads == 1..NumThreads

\* resource::FileState, the states the hooks tell apart
FileStates == {"Unloaded", "Loading", "Loaded"}

\* a data pointer: null, memory of the host, or the k-th leaked buffer
NULL == [heap |-> "null", at |-> 0]
HostData == [heap |-> "host", at |-> 0]
LeakedPtr(k) == [heap |-> "leaked", at |-> k]

\* the logical path of each table1 index, and get_hash_from_t1_index
TablePaths == << <<"a">>, <<"b", ":", "c">> >>
TableIdx == 1..Len(TablePaths)
TableHashes == [i \in TableIdx |-> hash40(TablePaths[i])]
get_hash_from_t1_index(i) == TableHashes[i]

\* the entries the host can hand to a hook
HostEntries ==
    {e \in [data : {NULL, HostData}, state : FileStates, flags : {0}] :
        e.state = "Loaded" => e.data = HostData}

NoEntry == [data |-> NULL, state |-> "None", flags |-> 0]

\* fs::read(path): the bytes of the file; every file of the fixture holds
\* the text of its own location
FileBytes(p) == [i \in 1..Len(p) |-> Ord(p[i])]

\* (mutant) the early return testing for Loading instead of Loaded
ShouldReturn_OnLoading(h, e) ==
    IF h = "idk"
    THEN e.state = "Loading"
    ELSE e.state = "Loading" \/ (e.state = "Unloaded" /\ e.data # NULL)

\* (mutant) add_idx... testing the state alone, as idk does
ShouldReturn_StateOnly(h, e) == e.state = "Loaded" /\ h \in {"idk", "add_idx"}

\* the hooks' early return (lib.rs 70 and 104)
ShouldReturn(h, e) ==
    IF h = "idk"
    THEN e.state = "Loaded"
    ELSE e.state = "Loaded" \/ (e.state = "Unloaded" /\ e.data # NULL)

\* (mutant) both hooks storing the flag of idk
HookFlag_Same(h) == 45 + (0 * Len(h))

\* the flag value each hook stores (lib.rs 82 and 116)
HookFlag(h) == IF h = "idk" THEN 45 ELSE 43

\* the storages of the runs with hooks: mods/m overrides "a" of the primary
\* tree; or the primary tree alone holds "a" and "b;c"
HookStorages ==
    {MkStorage(<< <<"a">> >>, <<>>, TRUE, << <<"m">> >>,
               [n \in ModNames |-> IF n = <<"m">> THEN << <<"a">> >> ELSE <<>>],
               {}),
     MkStorage(<< <<"a">>, <<"b", ";", "c">> >>, <<>>, FALSE, <<>>,
               [n \in ModNames |-> <<>>], {})}

Init ==
    /\ fs \in HookStorages
    /\ presets = {}
    /\ pcMain = "start"
    /\ arc_files = [map |-> EmptyMap, visited |-> <<>>]
    /\ lastLookup = <<>>
    /\ table \in [TableIdx -> HostEntries]
    /\ mutex = <<>>
    /\ leaked = <<>>
    /\ pc = [t \in Threads |-> "idle"]
    /\ hook = [t \in Threads |-> "none"]
    /\ idx = [t \in Threads |-> 1]
    /\ path = [t \in Threads |-> <<>>]
    /\ data = [t \in Threads |-> NULL]
    /\ ncalls = 0
    /\ origCalls = [t \in Threads |-> 0]
    /\ locked = [t \in Threads |-> 0]
    /\ wrote = [t \in Threads |-> {}]
    /\ seen = [t \in Threads |-> NoEntry]
    /\ MenuClosed

\* main, line 129: install_hooks!(idk, add_idx_to_table1_and_table2)
InstallHooks ==
    /\ pcMain = "initialized"
    /\ pcMain' = "installed"
    /\ UNCHANGED <<fs, presets, arc_files, lastLookup>>
    /\ UNCHANGED <<hookVars, menuVars>>

\* the host calls hooked function h with table1_idx i on thread t
Invoke(t) ==
    /\ pcMain = "installed"
    /\ pc[t] \in {"idle", "returned"}
    /\ ncalls < MaxCalls
    /\ \E h \in {"idk", "add_idx"}, i \in TableIdx :
          /\ hook' = [hook EXCEPT ![t] = h]
          /\ idx' = [idx EXCEPT ![t] = i]
    /\ pc' = [pc EXCEPT ![t] = "original"]
    /\ ncalls' = ncalls + 1
    /\ path' = [path EXCEPT ![t] = <<>>]
    /\ data' = [data EXCEPT ![t] = NULL]
    /\ origCalls' = [origCalls EXCEPT ![t] = 0]
    /\ locked' = [locked EXCEPT ![t] = 0]
    /\ wrote' = [wrote EXCEPT ![t] = {}]
    /\ seen' = [seen EXCEPT ![t] = NoEntry]
    /\ UNCHANGED <<menuVars, buildVars, lastLookup, table, mutex, leaked>>

\* (mutant) a hook that goes on without calling the original
CallOriginal_Skipped(t) ==
    /\ pc[t] = "original"
    /\ pc' = [pc EXCEPT ![t] = "lookup"]
    /\ UNCHANGED <<menuVars, buildVars, lastLookup, table, mutex, leaked, hook, idx,
                   path, data, ncalls, origCalls, locked, wrote, seen>>

\* lines 58 and 92: original!()(...)
CallOriginal(t) ==
    /\ pc[t] = "original"
    /\ origCalls' = [origCalls EXCEPT ![t] = @ + 1]
    /\ pc' = [pc EXCEPT ![t] = "lookup"]
    /\ UNCHANGED <<menuVars, buildVars, lastLookup, table, mutex, leaked, hook, idx,
                   path, data, ncalls, locked, wrote, seen>>

\* (mutant) the lookup taking the entry out of the map (HashMap::remove)
LookupHash_Remove(t) ==
    /\ pc[t] = "lookup"
    /\ LET hash == get_hash_from_t1_index(idx[t])
           found == get_from_hash(arc_files, hash)
       IN  IF found = <<>>
           THEN /\ pc' = [pc EXCEPT ![t] = "returned"]
                /\ path' = path
                /\ arc_files' = arc_files
           ELSE /\ pc' = [pc EXCEPT ![t] = "check"]
                /\ path' = [path EXCEPT ![t] = found]
                /\ arc_files' =
                      [arc_files EXCEPT
                          !.map = [h \in DOMAIN arc_files.map \ {hash} |->
                                      arc_files.map[h]]]
    /\ UNCHANGED <<fs, presets, pcMain, lastLookup, table, mutex, leaked,
                   hook, idx, data, ncalls, origCalls, locked, wrote, seen>>
    /\ UNCHANGED menuVars

\* lines 62-64 and 96-98: if let Some(path) = ARC_FILES.get_from_hash(hash)
LookupHash(t) ==
    /\ pc[t] = "lookup"
    /\ LET found == get_from_hash(arc_files, get_hash_from_t1_index(idx[t]))
       IN  IF found = <<>>
           THEN /\ pc' = [pc EXCEPT ![t] = "returned"]
                /\ path' = path
           ELSE /\ pc' = [pc EXCEPT ![t] = "check"]
                /\ path' = [path EXCEPT ![t] = found]
    /\ UNCHANGED <<menuVars, buildVars, lastLookup, table, mutex, leaked, hook, idx,
                   data, ncalls, origCalls, locked, wrote, seen>>

\* lines 68-72 and 102-106: the state check, made without the mutex
CheckState(t) ==
    /\ pc[t] = "check"
    /\ seen' = [seen EXCEPT ![t] = table[idx[t]]]
    /\ pc' = [pc EXCEPT ![t] = IF ShouldReturn(hook[t], table[idx[t]])
                               THEN "returned" ELSE "lock"]
    /\ UNCHANGED <<menuVars, buildVars, lastLookup, table, mutex, leaked, hook, idx,
                   path, data, ncalls, origCalls, locked, wrote>>

\* lines 76 and 110: nn::os::LockMutex(mutex)
LockMutex(t) ==
    /\ pc[t] = "lock"
    /\ mutex = <<>>
    /\ mutex' = <<t>>
    /\ locked' = [locked EXCEPT ![t] = @ + 1]
    /\ pc' = [pc EXCEPT ![t] = "read"]
    /\ UNCHANGED <<menuVars, buildVars, lastLookup, table, leaked, hook, idx, path,
                   data, ncalls, origCalls, wrote, seen>>

\* (mutant) the entry marked Loaded before the file is read
ReadFile_MarkFirst(t) ==
    /\ pc[t] = "read"
    /\ table' = [table EXCEPT ![idx[t]].state = "Loaded"]
    /\ wrote' = [wrote EXCEPT ![t] = @ \cup {"state"}]
    /\ \/ /\ leaked' = Append(leaked, FileBytes(path[t][1]))
          /\ data' = [data EXCEPT ![t] = LeakedPtr(Len(leaked) + 1)]
          /\ pc' = [pc EXCEPT ![t] = "wdata"]
       \/ /\ pc' = [pc EXCEPT ![t] = "panicked"]
          /\ UNCHANGED <<leaked, data>>
    /\ UNCHANGED <<menuVars, buildVars, lastLookup, mutex, hook, idx, path,
                   ncalls, origCalls, locked, seen>>

\* lines 78-79 and 112-113: fs::read(path).unwrap(), then Box::leak.  The
\* file may be gone since the scan: unwrap then panics, the mutex stays held.
ReadFile(t) ==
    /\ pc[t] = "read"
    /\ \/ /\ leaked' = Append(leaked, FileBytes(path[t][1]))
          /\ data' = [data EXCEPT ![t] = LeakedPtr(Len(leaked) + 1)]
          /\ pc' = [pc EXCEPT ![t] = "wdata"]
       \/ /\ pc' = [pc EXCEPT ![t] = "panicked"]
          /\ UNCHANGED <<leaked, data>>
    /\ UNCHANGED <<menuVars, buildVars, lastLookup, table, mutex, hook, idx, path,
                   ncalls, origCalls, locked, wrote, seen>>

\* lines 80 and 114: table2entry.data = data.as_ptr()
WriteData(t) ==
    /\ pc[t] = "wdata"
    /\ table' = [table EXCEPT ![idx[t]].data = data[t]]
    /\ wrote' = [wrote EXCEPT ![t] = @ \cup {"data"}]
    /\ pc' = [pc EXCEPT ![t] = "wstate"]
    /\ UNCHANGED <<menuVars, buildVars, lastLookup, mutex, leaked, hook, idx, path,
                   data, ncalls, origCalls, locked, seen>>

\* (mutant) the mutex released right after the state is written, before
\* the flags are
WriteState_Unlocking(t) ==
    /\ pc[t] = "wstate"
    /\ table' = [table EXCEPT ![idx[t]].state = "Loaded"]
    /\ wrote' = [wrote EXCEPT ![t] = @ \cup {"state"}]
    /\ mutex' = <<>>
    /\ pc' = [pc EXCEPT ![t] = "wflags"]
    /\ UNCHANGED <<menuVars, buildVars, lastLookup, leaked, hook, idx, path,
                   data, ncalls, origCalls, locked, seen>>

\* lines 81 and 115: table2entry.state = FileState::Loaded
WriteState(t) ==
    /\ pc[t] = "wstate"
    /\ table' = [table EXCEPT ![idx[t]].state = "Loaded"]
    /\ wrote' = [wrote EXCEPT ![t] = @ \cup {"state"}]
    /\ pc' = [pc EXCEPT ![t] = "wflags"]
    /\ UNCHANGED <<menuVars, buildVars, lastLookup, mutex, leaked, hook, idx, path,
                   data, ncalls, origCalls, locked, seen>>

\* lines 82 and 116: table2entry.flags = 45 (43)
WriteFlags(t) ==
    /\ pc[t] = "wflags"
    /\ table' = [table EXCEPT ![idx[t]].flags = HookFlag(hook[t])]
    /\ wrote' = [wrote EXCEPT ![t] = @ \cup {"flags"}]
    /\ pc' = [pc EXCEPT ![t] = "unlock"]
    /\ UNCHANGED <<menuVars, buildVars, lastLookup, mutex, leaked, hook, idx, path,
                   data, ncalls, origCalls, locked, seen>>

\* lines 84-87 and 118-121: nn::os::UnlockMutex(mutex), then
\* print_table1idx_info(table1_idx), which reads the entry for a log! that
\* expands to nothing, and the return to the host
UnlockMutex(t) ==
    /\ pc[t] = "unlock"
    /\ mutex' = <<>>
    /\ pc' = [pc EXCEPT ![t] = "returned"]
    /\ UNCHANGED <<menuVars, buildVars, lastLookup, table, leaked, hook, idx, path,
                   data, ncalls, origCalls, locked, wrote, seen>>

Next ==
    \/ Initialize
    \/ InstallHooks
    \/ \E t \in Threads :
          \/ Invoke(t)
          \/ CallOriginal(t)
          \/ LookupHash(t)
          \/ CheckState(t)
          \/ LockMutex(t)
          \/ ReadFile(t)
          \/ WriteData(t)
          \/ WriteState(t)
          \/ WriteFlags(t)
          \/ UnlockMutex(t)

Spec == Init /\ [][Next]_vars

----------------------------------------------------------------------------
(* show_arcadia: the mod manager session *)

\* Hash40::from(format!("{}/{}", umm_path, folder_name))
ModHash(folder_name) == ModHashes[JoinPath(UMM_DIR, folder_name)]

\* get_mods: the entries of the mods directory that are not files
\* (directories), in read_dir order; the position in the list is the id
\* (from 0)
get_mods(f) ==
    SelectSeq(f[UMM_DIR].entries, LAMBDA n : IsDir(f, JoinPath(UMM_DIR, n)))

\* the messages a session can deliver
Ids == 0..2
IndexLists == {<<0, 1>>, <<2, 0>>}
Msg(k, i, st, ix) == [kind |-> k, id |-> i, state |-> st, indexes |-> ix]
Workspaces == {<<"Default">>, <<"w">>}

\* the storages of the sessions: no mods directory; a file and the mod m; the
\* mods n and m
MenuStorages ==
    {MkStorage(<< <<"a">> >>, <<>>, FALSE, <<>>, [n \in ModNames |-> <<>>], {}),
     MkStorage(<< <<"a">> >>, <<>>, TRUE, << <<"a">>, <<"m">> >>,
               [n \in ModNames |-> <<>>], {}),
     MkStorage(<< <<"a">> >>, <<>>, TRUE, << <<"n">>, <<"m">> >>,
               [n \in ModNames |-> <<>>], {})}

InitMenu ==
    /\ fs \in MenuStorages
    /\ presets \in SUBSET {ModHashes[d] : d \in ModDirs}
    /\ pcMain = "start"
    /\ arc_files = [map |-> EmptyMap, visited |-> <<>>]
    /\ lastLookup = <<>>
    /\ InitHooks
    /\ pcMenu = "closed"
    /\ active \in {<<>>} \cup Workspaces
    /\ workspace_name = <<>>
    /\ loaded = {}
    /\ new_presets = {}
    /\ entries = <<>>
    /\ received = <<>>
    /\ writes = 0
    /\ prompt = "none"
    /\ relaunch = FALSE

\* lines 99-153: up to the opened session.  Without a mods directory the
\* function returns after a dialog.  workspace is the argument (None: <<>>).
ShowArcadia ==
    /\ pcMenu = "closed"
    /\ IF ~IsDir(fs, UMM_DIR)
       THEN /\ pcMenu' = "nodir"
            /\ UNCHANGED <<workspace_name, loaded, new_presets, entries>>
       ELSE /\ \E workspace \in {<<>>, <<"w">>} :
                  workspace_name' =
                      IF workspace # <<>> THEN workspace
                      ELSE IF active # <<>> THEN active
                      ELSE <<"Default">>
            /\ loaded' = presets
            /\ new_presets' = presets
            /\ entries' = get_mods(fs)
            /\ pcMenu' = "loop"
    /\ UNCHANGED <<buildVars, lastLookup, hookVars, active, received, writes,
                   prompt, relaunch>>

\* the rest of the session's state, which no message handler touches
MenuRest == <<buildVars, lastLookup, hookVars, active, workspace_name, loaded,
              entries, writes, prompt, relaunch>>

\* lines 162-166 and 190-194: insert the hash or remove it
SetMod(set, folder_name, state) ==
    IF state
    THEN set \cup {ModHash(folder_name)}
    ELSE set \ {ModHash(folder_name)}

\* lines 157-169: ToggleMod { id, state }; mods.entries[id] panics on an id
\* that is not listed
RecvToggleMod ==
    /\ pcMenu = "loop"
    /\ Len(received) < MaxMsgs
    /\ \E id \in Ids, state \in BOOLEAN :
          /\ received' = Append(received, Msg("ToggleMod", id, state, <<>>))
          /\ IF id >= Len(entries)
             THEN /\ pcMenu' = "panicked"
                  /\ UNCHANGED new_presets
             ELSE /\ new_presets' = SetMod(new_presets, entries[id + 1], state)
                  /\ UNCHANGED pcMenu
    /\ UNCHANGED MenuRest

\* lines 176-181: for item in mods.entries.iter(), insert its hash
RECURSIVE InsertAll(_, _)
InsertAll(set, items) ==
    IF items = <<>> THEN set
    ELSE InsertAll(set \cup {ModHash(Head(items))}, Tail(items))

\* lines 170-183: ChangeAll { state }
RecvChangeAll ==
    /\ pcMenu = "loop"
    /\ Len(received) < MaxMsgs
    /\ \E state \in BOOLEAN :
          /\ received' = Append(received, Msg("ChangeAll", 0, state, <<>>))
          /\ new_presets' = IF ~state THEN {}
                            ELSE InsertAll(new_presets, entries)
    /\ UNCHANGED <<pcMenu, MenuRest>>

\* lines 185-195: for idx in indexes; an index that is not listed panics,
\* after the indexes before it were applied
RECURSIVE SetIndexes(_, _, _, _)
SetIndexes(set, items, state, indexes) ==
    IF indexes = <<>> THEN [set |-> set, ok |-> TRUE]
    ELSE IF Head(indexes) >= Len(items) THEN [set |-> set, ok |-> FALSE]
    ELSE SetIndexes(SetMod(set, items[Head(indexes) + 1], state), items,
                    state, Tail(indexes))

\* lines 184-196: ChangeIndexes { state, indexes }
RecvChangeIndexes ==
    /\ pcMenu = "loop"
    /\ Len(received) < MaxMsgs
    /\ \E state \in BOOLEAN, indexes \in IndexLists :
          LET r == SetIndexes(new_presets, entries, state, indexes)
          IN  /\ received' =
                     Append(received, Msg("ChangeIndexes", 0, state, indexes))
              /\ new_presets' = r.set
              /\ pcMenu' = IF r.ok THEN "loop" ELSE "panicked"
    /\ UNCHANGED MenuRest

\* lines 197-199: DebugPrint { message }
RecvDebugPrint ==
    /\ pcMenu = "loop"
    /\ Len(received) < MaxMsgs
    /\ received' = Append(received, Msg("DebugPrint", 0, FALSE, <<>>))
    /\ UNCHANGED <<pcMenu, new_presets, MenuRest>>

\* lines 200-203: GetModSize
RecvGetModSize ==
    /\ pcMenu = "loop"
    /\ Len(received) < MaxMsgs
    /\ received' = Append(received, Msg("GetModSize", 0, FALSE, <<>>))
    /\ UNCHANGED <<pcMenu, new_presets, MenuRest>>

\* lines 204-208: Closure: exit the session and break
RecvClosure ==
    /\ pcMenu = "loop"
    /\ received' = Append(received, Msg("Closure", 0, FALSE, <<>>))
    /\ pcMenu' = "save"
    /\ UNCHANGED <<new_presets, MenuRest>>

\* line 155: recv_json returns Err, `while let Ok` ends the loop
RecvError ==
    /\ pcMenu = "loop"
    /\ received' = Append(received, Msg("Err", 0, FALSE, <<>>))
    /\ pcMenu' = "save"
    /\ UNCHANGED <<new_presets, MenuRest>>

\* lines 212-213: get_active_workspace_name().unwrap(), which panics when
\* the name cannot be read (the case line 107 falls back from), then
\* replace_preset(&workspace_name, &new_presets)
SavePreset ==
    /\ pcMenu = "save"
    /\ IF active = <<>>
       THEN /\ pcMenu' = "panicked"
            /\ UNCHANGED <<presets, writes>>
       ELSE /\ presets' = new_presets
            /\ writes' = writes + 1
            /\ pcMenu' = "ask"
    /\ UNCHANGED <<fs, pcMain, arc_files, lastLookup, hookVars, active,
                   workspace_name, loaded, new_presets, entries, received,
                   prompt, relaunch>>

\* (mutant) the dialog shown after any session that received a message
\* before it ended
ShouldAsk_AnyMessage(ws) ==
    Len(received) > 1 /\ active = ws

\* lines 215 and 218: new_presets != presets, then
\* active_workspace.eq(&workspace_name)
ShouldAsk(ws) ==
    new_presets # loaded /\ active = ws

\* lines 215-222: ask whether to relaunch, and relaunch on yes
AskRelaunch ==
    /\ pcMenu = "ask"
    /\ IF ShouldAsk(workspace_name)
       THEN \E yes \in BOOLEAN :
               /\ prompt' = IF yes THEN "yes" ELSE "no"
               /\ relaunch' = yes
       ELSE UNCHANGED <<prompt, relaunch>>
    /\ pcMenu' = "done"
    /\ UNCHANGED <<buildVars, lastLookup, hookVars, active, workspace_name,
                   loaded, new_presets, entries, received, writes>>

NextMenu ==
    \/ ShowArcadia
    \/ RecvToggleMod
    \/ RecvChangeAll
    \/ RecvChangeIndexes
    \/ RecvDebugPrint
    \/ RecvGetModSize
    \/ RecvClosure
    \/ RecvError
    \/ SavePreset
    \/ AskRelaunch

SpecMenu == InitMenu /\ [][NextMenu]_vars

----------------------------------------------------------------------------
(* What the claims about the index speak of *)

IsPrefix(pre, s) == Len(pre) <= Len(s) /\ SubSeq(s, 1, Len(pre)) = pre

Under(dir, p) == IsPrefix(dir \o <<"/">>, p)

\* the files of the tree rooted at dir, as storage holds them
RECURSIVE TreeFiles(_, _)
TreeFiles(f, dir) ==
    IF dir \notin DOMAIN f THEN {}
    ELSE UNION {IF JoinPath(dir, n) \in DOMAIN f
                THEN TreeFiles(f, JoinPath(dir, n))
                ELSE {JoinPath(dir, n)} : n \in Range(f[dir].entries)}

\* the subdirectories of the secondary root, and their enumeration position
SecondaryDirs(f) ==
    IF UMM_DIR \in DOMAIN f
    THEN {JoinPath(UMM_DIR, n) : n \in Range(f[UMM_DIR].entries)} \cap DOMAIN f
    ELSE {}
EnumPos(f, d) ==
    CHOOSE i \in 1..Len(f[UMM_DIR].entries) :
        JoinPath(UMM_DIR, f[UMM_DIR].entries[i]) = d

\* the logical asset path of a file of the tree rooted at root
Logical(root, p) ==
    LET rel == SubSeq(p, Len(root) + 2, Len(p))
    IN  [i \in 1..Len(rel) |-> IF rel[i] = ";" THEN ":" ELSE rel[i]]

\* the files discovered (visited) under a root during the build
Discovered(root) == {q \in Range(arc_files.visited) : Under(root, q)}

lookup(g) == get_from_hash(arc_files, hash40(g))

Built == pcMain # "start"
NoErrors == \A d \in DOMAIN fs : ~fs[d].err
PrimaryOnly == SecondaryDirs(fs) = {}

\* C4: after ArcFiles::new, a logical path that is in the primary tree and
\* was discovered in a secondary subdirectory looks up to a file of the
\* secondary tree, never to the primary one.
C4_OverrideWins ==
    Built =>
        \A p \in TreeFiles(fs, ARC_DIR) :
            \A d \in SecondaryDirs(fs) :
                \A q \in Discovered(d) :
                    Logical(d, q) = Logical(ARC_DIR, p) =>
                        LET found == lookup(Logical(ARC_DIR, p))
                        IN  found # <<>> /\ Under(UMM_DIR, found[1])

C4_Witness ==
    /\ Built
    /\ \E p \in Discovered(ARC_DIR) :
          \E d \in SecondaryDirs(fs) :
              \E q \in Discovered(d) :
                  /\ Logical(d, q) = Logical(ARC_DIR, p)
                  /\ lookup(Logical(ARC_DIR, p)) = <<q>>

\* C5: when several secondary subdirectories hold the same logical path,
\* the index maps it to the file of the subdirectory storage enumerated
\* last among them, whatever the enumeration order.
C5_LaterModWins ==
    Built =>
        \A d \in SecondaryDirs(fs) :
            \A q \in Discovered(d) :
                LET found == lookup(Logical(d, q))
                IN  /\ found # <<>>
                    /\ \E e \in SecondaryDirs(fs) :
                          /\ Under(e, found[1])
                          /\ \A e2 \in SecondaryDirs(fs) :
                                (\E q2 \in Discovered(e2) :
                                    Logical(e2, q2) = Logical(d, q))
                                => EnumPos(fs, e2) <= EnumPos(fs, e)

\* both subdirectories hold "a"; storage enumerates n before m; m wins
C5_Witness ==
    /\ Built
    /\ UMM_DIR \in DOMAIN fs
    /\ fs[UMM_DIR].entries = << <<"n">>, <<"m">> >>
    /\ JoinPath(ModDir(<<"n">>), <<"a">>) \in Discovered(ModDir(<<"n">>))
    /\ JoinPath(ModDir(<<"m">>), <<"a">>) \in Discovered(ModDir(<<"m">>))
    /\ lookup(<<"a">>) = <<JoinPath(ModDir(<<"m">>), <<"a">>)>>

\* C6 (as claimed): a logical path of the primary tree that only disabled
\* secondary subdirectories also hold looks up to the primary-tree file.
C6_DisabledModIgnored ==
    (Built /\ NoErrors) =>
        \A p \in TreeFiles(fs, ARC_DIR) :
            LET g == Logical(ARC_DIR, p)
                holders == {d \in SecondaryDirs(fs) :
                              \E q \in TreeFiles(fs, d) : Logical(d, q) = g}
            IN  (holders # {} /\ \A d \in holders : ModHashes[d] \notin presets)
                => /\ lookup(g) # <<>>
                   /\ Under(ARC_DIR, lookup(g)[1])

\* C7 (as claimed): in an index built from the primary tree alone, without
\* traversal errors, every file of the tree is what its logical path looks
\* up to.
C7_EveryPrimaryFileRetrievable ==
    (Built /\ PrimaryOnly /\ NoErrors) =>
        \A p \in TreeFiles(fs, ARC_DIR) : lookup(Logical(ARC_DIR, p)) = <<p>>

\* the position of the last visit of a file with the logical path of p
LastVisit(root, p) ==
    CHOOSE i \in 1..Len(arc_files.visited) :
        /\ Under(root, arc_files.visited[i])
        /\ Logical(root, arc_files.visited[i]) = Logical(root, p)
        /\ \A j \in (i + 1)..Len(arc_files.visited) :
              Under(root, arc_files.visited[j]) =>
                  Logical(root, arc_files.visited[j]) # Logical(root, p)

\* C7 (amended): ... every file of the tree is discovered, and its logical
\* path looks up to the last enumerated file with that logical path: to the
\* file itself unless another file's name differs from it only in ';'
\* versus ':'.
C7_LastOfLogicalPathRetrievable ==
    (Built /\ PrimaryOnly /\ NoErrors) =>
        \A p \in TreeFiles(fs, ARC_DIR) :
            LET found == lookup(Logical(ARC_DIR, p))
            IN  /\ p \in Discovered(ARC_DIR)
                /\ found = <<arc_files.visited[LastVisit(ARC_DIR, p)]>>
                /\ (\A q \in TreeFiles(fs, ARC_DIR) :
                        q # p => Logical(ARC_DIR, q) # Logical(ARC_DIR, p))
                   => found = <<p>>

\* two names differing only in ';' versus ':': the later one is found
C7_Witness ==
    /\ Built /\ PrimaryOnly /\ NoErrors
    /\ \E p, q \in TreeFiles(fs, ARC_DIR) :
          /\ p # q
          /\ Logical(ARC_DIR, p) = Logical(ARC_DIR, q)
          /\ lookup(Logical(ARC_DIR, p)) = <<q>>

\* storage f without the subtree rooted at directory e
Without(f, e) ==
    [d \in {x \in DOMAIN f : x # e /\ ~Under(e, x)} |->
        [entries |-> SelectSeq(f[d].entries, LAMBDA n : JoinPath(d, n) # e),
         err |-> f[d].err]]

\* C8 (as claimed): when read_dir fails for one directory (and nothing else
\* fails), the index is the one that would be built with that directory's
\* subtree absent: files of sibling directories and of the secondary
\* subdirectories enumerated after it are indexed all the same.
C8_FailureAbsorbedLocally ==
    Built =>
        \A e \in DOMAIN fs :
            (/\ fs[e].err
             /\ fs[e].entries = <<>>
             /\ \A d \in DOMAIN fs : fs[d].err => d = e)
            => arc_files.map = ArcFilesNew(Without(fs, e)).map

----------------------------------------------------------------------------
(* What the claims about the hooks speak of *)

AllFields == {"data", "state", "flags"}

\* the override file of table index i, when the index holds one
OverrideOf(i) == get_from_hash(arc_files, TableHashes[i])

\* C1 (as claimed): no invocation starts writing an entry (the first write
\* of its install, that of data) whose state is Loaded at that moment, in
\* any interleaving of the two hooks.
C1_NoInstallOverLoaded ==
    \A t \in Threads : pc[t] = "wdata" => table[idx[t]].state # "Loaded"

\* C2: an invocation that finds the entry Loaded when it checks it (an
\* override being present) returns at once: it never takes the mutex and
\* writes none of data, state, flags.
C2_LoadedEntryUntouched ==
    \A t \in Threads :
        seen[t].state = "Loaded" =>
            /\ pc[t] = "returned"
            /\ locked[t] = 0
            /\ wrote[t] = {}

C2_Witness ==
    \E t \in Threads :
        /\ pc[t] = "returned"
        /\ seen[t].state = "Loaded"
        /\ OverrideOf(idx[t]) # <<>>
        /\ table[idx[t]] = seen[t]

\* C3: an invocation that finds the entry Unloaded with null data (an
\* override being present) and whose read succeeds has, when it releases
\* the mutex, left the entry Loaded, its data pointing at the exact bytes of
\* the override file, and its flags 45 (idk) or 43 (add_idx...); the entry
\* is still Loaded with those bytes when the invocation returns.
C3_InstallPostcondition ==
    \A t \in Threads :
        (seen[t].state = "Unloaded" /\ seen[t].data = NULL) =>
            LET e == table[idx[t]]
                installed ==
                    /\ e.state = "Loaded"
                    /\ e.data.heap = "leaked"
                    /\ OverrideOf(idx[t]) # <<>>
                    /\ leaked[e.data.at] = FileBytes(OverrideOf(idx[t])[1])
            IN  /\ pc[t] = "unlock" =>
                    /\ installed
                    /\ e.flags = (IF hook[t] = "idk" THEN 45 ELSE 43)
                /\ pc[t] = "returned" => installed

\* idk has installed the override of one entry, add_idx... that of another
C3_Witness ==
    \E t, u \in Threads :
        /\ pc[t] = "returned" /\ pc[u] = "returned"
        /\ hook[t] = "idk" /\ hook[u] = "add_idx"
        /\ idx[t] # idx[u]
        /\ \A w \in {t, u} :
              /\ seen[w].state = "Unloaded" /\ seen[w].data = NULL
              /\ wrote[w] = AllFields
        /\ table[idx[t]].flags = 45
        /\ table[idx[u]].flags = 43
        /\ table[idx[t]].data # table[idx[u]].data

\* C9: once ARC_FILES is initialized nothing changes it: no step of a hook
\* (its get_from_hash included) alters the map, so every lookup, in any order
\* and interleaving, answers as it would right after the build.
C9_IndexImmutable ==
    [][pcMain # "start" => arc_files' = arc_files]_vars

C9_Witness ==
    /\ pcMain = "installed"
    /\ arc_files.map # EmptyMap
    /\ \E t, u \in Threads :
          /\ t # u
          /\ pc[t] = "returned" /\ wrote[t] = AllFields
          /\ pc[u] = "returned" /\ path[u] = path[t]

\* C10: when the read of the replacement file fails, the invocation has
\* written none of data, state, flags: the entry is never left partly
\* installed by a failed read.
C10_ReadFailureWritesNothing ==
    \A t \in Threads :
        pc[t] = "panicked" => wrote[t] = {}

C10_Witness ==
    \E t \in Threads :
        /\ pc[t] = "panicked"
        /\ locked[t] = 1
        /\ table[idx[t]] = seen[t]
        /\ seen[t].state = "Unloaded"

\* an entry as an install leaves it
IsInstalled(e) ==
    /\ e.state = "Loaded"
    /\ e.data.heap = "leaked"
    /\ e.flags \in {43, 45}

\* C11: every write of data, state or flags is made by the thread holding
\* the mutex; and whenever no hook thread holds the mutex, every invocation
\* has written none or all three of the fields, and every entry is either
\* as the host left it or as an install leaves it.
C11_NoPartialWrites ==
    /\ [](mutex = <<>> =>
            /\ \A t \in Threads : wrote[t] \in {{}, AllFields}
            /\ \A i \in TableIdx :
                  table[i] \in HostEntries \/ IsInstalled(table[i]))
    /\ [][\A i \in TableIdx :
            table'[i] # table[i] =>
                \E t \in Threads :
                    /\ mutex = <<t>> /\ mutex' = <<t>>
                    /\ idx[t] = i
                    /\ wrote'[t] # wrote[t]]_vars

\* both hooks have installed, one entry each; the mutex is free
C11_Witness ==
    /\ mutex = <<>>
    /\ \E t, u \in Threads :
          /\ t # u /\ idx[t] # idx[u]
          /\ pc[t] = "returned" /\ wrote[t] = AllFields
          /\ pc[u] = "returned" /\ wrote[u] = AllFields
          /\ IsInstalled(table[idx[t]]) /\ IsInstalled(table[idx[u]])

\* C12: an invocation of either hook has called the original once as soon
\* as it is past its first statement, and exactly once when it is over,
\* however it ends: lookup miss, early return, install, or failed read.
C12_OriginalExactlyOnce ==
    \A t \in Threads :
        /\ origCalls[t] <= 1
        /\ pc[t] \notin {"idle", "original"} => origCalls[t] = 1

\* one invocation ended on a miss, another on a failed read
C12_Witness ==
    \E t, u \in Threads :
        /\ pc[t] = "returned" /\ path[t] = <<>> /\ origCalls[t] = 1
        /\ pc[u] = "panicked" /\ origCalls[u] = 1

\* C13 (as claimed): the read of the replacement file is over before the
\* mutex is taken: no invocation is at its fs::read while holding the mutex.
C13_ReadOutsideCriticalSection ==
    \A t \in Threads : pc[t] = "read" => mutex # <<t>>

\* C14 (as claimed): every path of an invocation that took the mutex
\* releases it: an invocation that is over, by a return or by the failed
\* read, does not hold the mutex.
C14_MutexReleasedOnEveryPath ==
    \A t \in Threads : pc[t] \in {"returned", "panicked"} => mutex # <<t>>

\* C15 (as claimed): an invocation that finds the entry Loading with
\* non-null data writes none of data, state, flags.
C15_LoadInFlightUntouched ==
    \A t \in Threads :
        (seen[t].state = "Loading" /\ seen[t].data # NULL) => wrote[t] = {}

\* C16 (as claimed): every step that changes the state of an entry starts
\* from Unloaded.
C16_OnlyFromUnloaded ==
    [][\A i \in TableIdx :
          table'[i].state # table[i].state => table[i].state = "Unloaded"]_vars

\* the condition under which a hook goes on to substitute, on the entry e
\* it has read
MaySubstitute(h, e) ==
    /\ e.state # "Loaded"
    /\ h = "add_idx" => ~(e.state = "Unloaded" /\ e.data # NULL)

\* C17: an invocation goes on to substitute exactly when the index holds an
\* override for the hash and the entry it reads is not Loaded and, for
\* add_idx..., not Unloaded with non-null data (idk substitutes then too);
\* an invocation that does not go on writes none of data, state, flags, and
\* one that does and returns has written all three.
C17_SubstitutionCondition ==
    \A t \in Threads :
        LET goesOn == /\ OverrideOf(idx[t]) # <<>>
                      /\ MaySubstitute(hook[t], seen[t])
        IN  /\ pc[t] = "returned" =>
                  /\ goesOn => wrote[t] = AllFields
                  /\ ~goesOn => wrote[t] = {} /\ locked[t] = 0
            /\ pc[t] \in {"lock", "read", "wdata", "wstate", "wflags",
                          "unlock", "panicked"} => goesOn

\* on entries Unloaded with host data: add_idx... returned without a write,
\* idk installed
C17_Witness ==
    \E t, u \in Threads :
        /\ pc[t] = "returned" /\ hook[t] = "add_idx"
        /\ OverrideOf(idx[t]) # <<>>
        /\ seen[t] = [data |-> HostData, state |-> "Unloaded", flags |-> 0]
        /\ wrote[t] = {}
        /\ pc[u] = "returned" /\ hook[u] = "idk"
        /\ seen[u] = [data |-> HostData, state |-> "Unloaded", flags |-> 0]
        /\ wrote[u] = AllFields

\* C18 (as claimed): whenever no invocation is running, the buffers read
\* and leaked are no more than the entries whose data is a leaked buffer
\* (the assets a substitution was made for).
C18_LeakBoundedByAssets ==
    (\A t \in Threads : pc[t] \in {"idle", "returned", "panicked"}) =>
        Len(leaked) <=
            Cardinality({i \in TableIdx : table[i].data.heap = "leaked"})

----------------------------------------------------------------------------
(* What the claims about the mod manager session speak of *)

\* the hashes of the listed mods
ListedHashes(items) == {ModHash(items[i]) : i \in 1..Len(items)}

\* the preset after message m
Applied(set, m, items) ==
    CASE m.kind = "ToggleMod" ->
            IF m.state
            THEN set \cup {ModHash(items[m.id + 1])}
            ELSE set \ {ModHash(items[m.id + 1])}
      [] m.kind = "ChangeAll" ->
            IF m.state THEN set \cup ListedHashes(items) ELSE {}
      [] m.kind = "ChangeIndexes" ->
            LET hs == {ModHash(items[i + 1]) : i \in Range(m.indexes)}
            IN  IF m.state THEN set \cup hs ELSE set \ hs
      [] OTHER -> set

\* the preset after the messages msgs, in order
RECURSIVE AppliedAll(_, _, _)
AppliedAll(set, msgs, items) ==
    IF msgs = <<>> THEN set
    ELSE AppliedAll(Applied(set, Head(msgs), items), Tail(msgs), items)

\* C19 (as claimed): nothing is persisted while the session runs; once the
\* session is over the preset was written exactly once, and the stored
\* preset is the one loaded at the start with every received message
\* applied in order.
C19_PresetPersistedOnce ==
    /\ pcMenu \in {"loop", "save"} => writes = 0 /\ presets = loaded
    /\ pcMenu \in {"ask", "done", "panicked"} =>
          /\ writes = 1
          /\ presets = AppliedAll(loaded, received, entries)

\* C20: RequestToRelaunchApplication is called only after the dialog was
\* answered yes; the dialog is shown only when the final preset differs
\* from the one loaded at the start and the edited workspace is the active
\* one; after messages that leave the loaded preset as it was there is no
\* dialog and no relaunch.
C20_RelaunchOnlyIfChanged ==
    /\ relaunch => prompt = "yes"
    /\ prompt # "none" =>
          /\ pcMenu = "done"
          /\ presets # loaded
          /\ active = workspace_name
    /\ (/\ pcMenu \in {"ask", "done"}
        /\ AppliedAll(loaded, received, entries) = loaded)
       => prompt = "none" /\ ~relaunch

\* a toggle changed the preset of the active workspace; the user said yes
C20_Witness ==
    /\ pcMenu = "done"
    /\ relaunch
    /\ \E i \in 1..Len(received) : received[i].kind = "ToggleMod"
    /\ presets # loaded
    /\ active = workspace_name

\* a session whose two toggles cancel out ends without a dialog
C20_CancelOut ==
    /\ pcMenu = "done"
    /\ Len(received) = 3
    /\ received[1].kind = "ToggleMod" /\ received[2].kind = "ToggleMod"
    /\ new_presets # Applied(loaded, received[1], entries)
    /\ new_presets = loaded
    /\ active = workspace_name
    /\ prompt = "none"

====
